---- MODULE Spec2Model ----
(***************************************************************************)
(* The app installer of scholarmis.apps (installer.py): config readers,    *)
(* reconcilers, the app registrar and the install orchestrator, over a     *)
(* relational store with Django's get_or_create / update_or_create and     *)
(* unique constraints.                                                     *)
(*                                                                         *)
(* Strings that the code parses (schedule strings, option names that are   *)
(* slugified) are sequences of one-character strings; identifiers that the *)
(* code only compares are TLA+ strings.  A NULL foreign key is 0; primary  *)
(* keys start at 1.                                                        *)
(***************************************************************************)
EXTENDS Integers, Sequences, FiniteSets, TLC

VARIABLES
    db,             \* the database: one set of rows per table
    files,          \* the sub-application's config files, as the readers find them
    app_config,     \* the AppConfig the installer was built from
    ignore_errors,  \* AppInstaller.ignore_errors of the installer in use
    pc,             \* position of install(): the step to run next, or "idle"
    attempted,      \* steps of the current install() that were entered, in order
    logged,         \* exceptions handed to log_error by the step wrappers
    raised,         \* exception the last called operation raised to its caller
    last,           \* history: the last loader call (its input and the db before it)
    accepted,       \* history: kind of the last accepted schedule per task name
    snap,           \* history: managed tables after the previous install of the same inputs
    calls,          \* number of top-level operations run so far
    exports,        \* the exports folder in storage: whether it exists, and its files
    clock,          \* timezone.now(), in hours
    runs            \* per worker, its run of cleanup_exports_folder

\* the installer's state and the cleanup task's state
ivars == <<db, files, app_config, ignore_errors, pc, attempted, logged, raised,
           last, accepted, snap, calls>>
cvars == <<exports, clock, runs>>

vars == <<ivars, cvars>>

NoRef == 0
NoExc == "none"

-----------------------------------------------------------------------------
(* Python string primitives used by the loaders *)

Whitespace == {" "}
DecimalDigits == {"0", "1", "2", "3", "4", "5", "6", "7", "8", "9"}

DigitValue(c) ==
    CASE c = "0" -> 0 [] c = "1" -> 1 [] c = "2" -> 2 [] c = "3" -> 3
      [] c = "4" -> 4 [] c = "5" -> 5 [] c = "6" -> 6 [] c = "7" -> 7
      [] c = "8" -> 8 [] c = "9" -> 9

DigitChar(n) == <<"0", "1", "2", "3", "4", "5", "6", "7", "8", "9">>[n + 1]

\* str.split() without arguments: runs of whitespace separate, no empty fields
RECURSIVE SplitFrom(_, _, _)
SplitFrom(s, cur, acc) ==
    IF s = <<>> THEN (IF cur = <<>> THEN acc ELSE Append(acc, cur))
    ELSE IF Head(s) \in Whitespace
         THEN SplitFrom(Tail(s), <<>>, IF cur = <<>> THEN acc ELSE Append(acc, cur))
         ELSE SplitFrom(Tail(s), Append(cur, Head(s)), acc)

split(s) == SplitFrom(s, <<>>, <<>>)

\* str.isdigit(): non-empty and every character a digit
isdigit(s) == s # <<>> /\ \A i \in 1..Len(s) : s[i] \in DecimalDigits

\* int(s) for a string of digits
RECURSIVE IntOfDigits(_, _)
IntOfDigits(s, acc) ==
    IF s = <<>> THEN acc ELSE IntOfDigits(Tail(s), 10 * acc + DigitValue(Head(s)))

int(s) == IntOfDigits(s, 0)

\* str(n) for an integer
RECURSIVE DigitsOfNat(_)
DigitsOfNat(n) ==
    IF n < 10 THEN <<DigitChar(n)>> ELSE Append(DigitsOfNat(n \div 10), DigitChar(n % 10))

StrOfInt(n) == IF n < 0 THEN <<"-">> \o DigitsOfNat(-n) ELSE DigitsOfNat(n)

\* A YAML scalar as safe_load returns it: an int, a str or None
YInt(n) == [t |-> "int", i |-> n]
YStr(s) == [t |-> "str", s |-> s]
YNone == [t |-> "null"]

\* str(value)
str(value) ==
    CASE value.t = "int" -> StrOfInt(value.i)
      [] value.t = "str" -> value.s
      [] value.t = "null" -> <<"N", "o", "n", "e">>

-----------------------------------------------------------------------------
(* Django ORM primitives over a table, a set of rows with an "id" field *)

Result(rows, obj, exc) == [rows |-> rows, obj |-> obj, exc |-> exc]

NoObj == [id |-> NoRef]

\* the next value of the table's AUTOINCREMENT key
NewId(rows) ==
    IF rows = {} THEN 1
    ELSE (CHOOSE m \in {r.id : r \in rows} : \A r \in rows : r.id <= m) + 1

\* QuerySet.filter(**lookup)
Filter(rows, lookup) == {r \in rows : \A f \in DOMAIN lookup : r[f] = lookup[f]}

\* a unique constraint of the table that `row` would break
BreaksUnique(rows, row, unique) ==
    \E u \in unique : \E r \in rows : r.id # row.id /\ \A f \in u : r[f] = row[f]

\* QuerySet.create(**fields): INSERT, or IntegrityError on a unique constraint
Create(rows, fields, unique) ==
    LET row == [id |-> NewId(rows)] @@ fields IN
    IF BreaksUnique(rows, row, unique)
    THEN Result(rows, NoObj, "IntegrityError")
    ELSE Result(rows \cup {row}, row, NoExc)

\* QuerySet.get(**lookup)
Get(rows, lookup) ==
    LET found == Filter(rows, lookup) IN
    IF found = {} THEN Result(rows, NoObj, "DoesNotExist")
    ELSE IF Cardinality(found) > 1 THEN Result(rows, NoObj, "MultipleObjectsReturned")
    ELSE Result(rows, CHOOSE r \in found : TRUE, NoExc)

\* QuerySet.get_or_create(**lookup): get by every given field, else create with them
GetOrCreate(rows, lookup, unique) ==
    LET got == Get(rows, lookup) IN
    IF got.exc = "DoesNotExist" THEN Create(rows, lookup, unique) ELSE got

\* QuerySet.update_or_create(**lookup, defaults=defaults)
UpdateOrCreate(rows, lookup, defaults, unique) ==
    LET got == Get(rows, lookup) IN
    IF got.exc = "DoesNotExist" THEN Create(rows, defaults @@ lookup, unique)
    ELSE IF got.exc # NoExc THEN got
    ELSE LET row == defaults @@ got.obj IN
         IF BreaksUnique(rows, row, unique)
         THEN Result(rows, NoObj, "IntegrityError")
         ELSE Result((rows \ {got.obj}) \cup {row}, row, NoExc)

-----------------------------------------------------------------------------
(* celery.schedules.crontab as PeriodicTasks calls it *)

\* crontab._expand_cronspec for the field forms the inputs use: "*" and a number
ExpandCronspec(field, lo, hi) ==
    IF field = <<"*">> THEN [ok |-> TRUE, v |-> lo..hi]
    ELSE IF isdigit(field) /\ int(field) >= lo /\ int(field) <= hi
         THEN [ok |-> TRUE, v |-> {int(field)}]
         ELSE [ok |-> FALSE, v |-> {}]

\* crontab(*parts): the five fields bind to crontab's parameters in its order,
\* (minute, hour, day_of_week, day_of_month, month_of_year)
crontab(parts) ==
    LET minute == ExpandCronspec(parts[1], 0, 59)
        hour == ExpandCronspec(parts[2], 0, 23)
        day_of_week == ExpandCronspec(parts[3], 0, 6)
        day_of_month == ExpandCronspec(parts[4], 1, 31)
        month_of_year == ExpandCronspec(parts[5], 1, 12)
    IN  IF minute.ok /\ hour.ok /\ day_of_week.ok /\ day_of_month.ok /\ month_of_year.ok
        THEN [exc |-> NoExc,
              schedule |-> [minute |-> minute.v, hour |-> hour.v,
                            day_of_month |-> day_of_month.v,
                            month_of_year |-> month_of_year.v,
                            day_of_week |-> day_of_week.v]]
        ELSE [exc |-> "ValueError", schedule |-> [minute |-> {}]]

\* PeriodicTasks.validate_schedule_format
validate_schedule_format(schedule) ==
    LET parts == split(schedule) IN
    IF Len(parts) # 5 THEN [exc |-> "ValueError", schedule |-> [minute |-> {}]]
    ELSE crontab(parts)

-----------------------------------------------------------------------------
(* The database *)

\* the models of the sub-application and their concrete fields
ModelFields ==
    [Category |-> {"name", "code", "slug"},
     Grade |-> {"code", "label"}]

ModelNames == DOMAIN ModelFields

EmptyDb ==
    [App |-> {}, app_permissions |-> {}, ContentType |-> {}, Permission |-> {},
     AppSetting |-> {}, CrontabSchedule |-> {}, IntervalSchedule |-> {},
     PeriodicTask |-> {}, tables |-> [m \in ModelNames |-> {}]]

\* unique constraints of the tables (models.py, django.contrib.auth, django_celery_beat)
\* App.name declared without unique=True
UniqueApp_NotDeclared == {}

UniqueApp == {{"name"}}
UniquePermission == {{"content_type", "codename"}}
UniqueContentType == {{"app_label", "model"}}
UniqueAppSetting == {{"app", "name"}}
UniquePeriodicTask == {{"name"}}
NoUnique == {}

-----------------------------------------------------------------------------
(* PeriodicTasks: celery/tasks.yml *)

SECONDS == "seconds"

Outcome(d, exc, kind) == [db |-> d, exc |-> exc, kind |-> kind]

\* PeriodicTask.objects.update_or_create(name=name, defaults=defaults)
SaveTask(d, name, defaults, kind) ==
    LET r == UpdateOrCreate(d.PeriodicTask, [name |-> name], defaults, UniquePeriodicTask)
    IN  Outcome([d EXCEPT !.PeriodicTask = r.rows], r.exc, IF r.exc = NoExc THEN kind ELSE "none")

\* Case A of the loop body: five parts, a crontab schedule; the interval is cleared
CronCase(d, name, task, schedule_str) ==
    LET s == validate_schedule_format(schedule_str) IN
    IF s.exc # NoExc THEN Outcome(d, s.exc, "none")
    ELSE LET c == GetOrCreate(d.CrontabSchedule, s.schedule, NoUnique) IN
         IF c.exc # NoExc THEN Outcome(d, c.exc, "none")
         ELSE SaveTask([d EXCEPT !.CrontabSchedule = c.rows], name,
                       [task |-> task, crontab |-> c.obj.id, interval |-> NoRef], "cron")

\* IntervalCase with the line that clears the crontab left out
IntervalCase_KeepsCrontab(d, name, task, part) ==
    LET i == GetOrCreate(d.IntervalSchedule, [every |-> int(part), period |-> SECONDS],
                         NoUnique)
        old == Filter(d.PeriodicTask, [name |-> name])
        kept == IF old = {} THEN NoRef ELSE (CHOOSE r \in old : TRUE).crontab
    IN  IF i.exc # NoExc THEN Outcome(d, i.exc, "none")
        ELSE SaveTask([d EXCEPT !.IntervalSchedule = i.rows], name,
                      [task |-> task, interval |-> i.obj.id, crontab |-> kept], "interval")

\* Case B of the loop body: one part of digits, an interval in seconds; the crontab is cleared
IntervalCase(d, name, task, part) ==
    LET i == GetOrCreate(d.IntervalSchedule, [every |-> int(part), period |-> SECONDS],
                         NoUnique)
    IN  IF i.exc # NoExc THEN Outcome(d, i.exc, "none")
        ELSE SaveTask([d EXCEPT !.IntervalSchedule = i.rows], name,
                      [task |-> task, interval |-> i.obj.id, crontab |-> NoRef], "interval")

\* the body of the loop of PeriodicTasks.load for one (name, details) item
ProcessTask(d, name, details) ==
    IF details.t # "dict" THEN Outcome(d, "AttributeError", "none")
    ELSE LET schedule_str == str(IF "schedule" \in DOMAIN details.v
                                 THEN details.v.schedule ELSE YStr(<<>>))
             parts == split(schedule_str)
         IN  IF "task" \notin DOMAIN details.v THEN Outcome(d, "KeyError", "none")
             ELSE IF Len(parts) = 5 THEN CronCase(d, name, details.v.task, schedule_str)
             ELSE IF Len(parts) = 1 /\ isdigit(parts[1])
                  THEN IntervalCase(d, name, details.v.task, parts[1])
             ELSE Outcome(d, "ValueError", "none")

\* the loop of PeriodicTasks.load with the try around the loop instead of inside it:
\* the first exception ends the loop, and is printed or re-raised
RECURSIVE TasksLoop_StopsAtFirstError(_, _, _, _)
TasksLoop_StopsAtFirstError(d, items, ie, acc) ==
    IF items = <<>> THEN [db |-> d, exc |-> NoExc, accepted |-> acc]
    ELSE LET name == Head(items).name
             r == ProcessTask(d, name, Head(items).details)
         IN  IF r.exc # NoExc
             THEN [db |-> r.db, exc |-> IF ie THEN NoExc ELSE r.exc, accepted |-> acc]
             ELSE TasksLoop_StopsAtFirstError(r.db, Tail(items), ie,
                                              [acc EXCEPT ![name] = r.kind])

\* the loop of PeriodicTasks.load: an exception of an item is printed and the loop
\* goes on when ignore_errors, and is re-raised otherwise
RECURSIVE TasksLoop(_, _, _, _)
TasksLoop(d, items, ie, acc) ==
    IF items = <<>> THEN [db |-> d, exc |-> NoExc, accepted |-> acc]
    ELSE LET name == Head(items).name
             r == ProcessTask(d, name, Head(items).details)
         IN  IF r.exc # NoExc /\ ~ie
             THEN [db |-> r.db, exc |-> r.exc, accepted |-> acc]
             ELSE TasksLoop(r.db, Tail(items), ie,
                            IF r.exc = NoExc THEN [acc EXCEPT ![name] = r.kind] ELSE acc)

\* PeriodicTasks.load that removes the tasks of a sub-application without a tasks.yml
PeriodicTasks_load_PrunesWhenMissing(d, file, ie, acc) ==
    IF file.st = "missing"
    THEN [db |-> [d EXCEPT !.PeriodicTask = {}], exc |-> NoExc, accepted |-> acc]
    ELSE IF file.st = "garbled" THEN [db |-> d, exc |-> "YAMLError", accepted |-> acc]
    ELSE IF file.data.t = "null" THEN [db |-> d, exc |-> NoExc, accepted |-> acc]
    ELSE IF file.data.t # "dict" THEN [db |-> d, exc |-> "AttributeError", accepted |-> acc]
    ELSE TasksLoop(d, file.data.v, ie, acc)

\* PeriodicTasks.load
PeriodicTasks_load(d, file, ie, acc) ==
    IF file.st = "missing" THEN [db |-> d, exc |-> NoExc, accepted |-> acc]
    ELSE IF file.st = "garbled" THEN [db |-> d, exc |-> "YAMLError", accepted |-> acc]
    ELSE IF file.data.t = "null" THEN [db |-> d, exc |-> NoExc, accepted |-> acc]
    ELSE IF file.data.t # "dict" THEN [db |-> d, exc |-> "AttributeError", accepted |-> acc]
    ELSE TasksLoop(d, file.data.v, ie, acc)

-----------------------------------------------------------------------------
(* BaseLoader: the JSON reader *)

PyNone == "<None>"

\* bool(value) of a parsed JSON or YAML value
Truthy(data) ==
    CASE data.t = "null" -> FALSE
      [] data.t = "int" -> data.i # 0
      [] data.t = "dict" -> data.v # <<>>
      [] data.t = "list" -> data.v # <<>>
      [] OTHER -> TRUE

Absent == [t |-> "false"]

\* BaseLoader._read_json_file: the parsed data; False when the file is missing or
\* does not decode and errors are ignored; FileNotFoundError / ValueError otherwise
read_json_file(file, ie) ==
    IF file.st = "missing"
    THEN (IF ie THEN [exc |-> NoExc, data |-> Absent]
          ELSE [exc |-> "FileNotFoundError", data |-> Absent])
    ELSE IF file.st = "garbled"
    THEN (IF ie THEN [exc |-> NoExc, data |-> Absent]
          ELSE [exc |-> "ValueError", data |-> Absent])
    ELSE [exc |-> NoExc, data |-> file.data]

Loaded(d, exc) == [db |-> d, exc |-> exc]

-----------------------------------------------------------------------------
(* Options: config/options.json *)

Lowercase == <<"a", "b", "c", "d", "e", "f", "g", "h", "i", "j", "k", "l", "m",
               "n", "o", "p", "q", "r", "s", "t", "u", "v", "w", "x", "y", "z">>
Uppercase == <<"A", "B", "C", "D", "E", "F", "G", "H", "I", "J", "K", "L", "M",
               "N", "O", "P", "Q", "R", "S", "T", "U", "V", "W", "X", "Y", "Z">>

lower(c) ==
    IF \E i \in 1..26 : Uppercase[i] = c
    THEN Lowercase[CHOOSE i \in 1..26 : Uppercase[i] = c]
    ELSE c

IsWordChar(c) ==
    \/ c \in DecimalDigits
    \/ c = "_"
    \/ \E i \in 1..26 : Lowercase[i] = c \/ Uppercase[i] = c

\* re.sub(r'[^\w\s-]', '', value.lower())
RECURSIVE KeepSlugChars(_)
KeepSlugChars(s) ==
    IF s = <<>> THEN <<>>
    ELSE LET c == lower(Head(s)) IN
         IF IsWordChar(c) \/ c \in Whitespace \/ c = "-"
         THEN <<c>> \o KeepSlugChars(Tail(s))
         ELSE KeepSlugChars(Tail(s))

\* re.sub(r'[-\s]+', '-', value)
RECURSIVE SquashSeparators(_, _)
SquashSeparators(s, inRun) ==
    IF s = <<>> THEN <<>>
    ELSE IF Head(s) \in Whitespace \/ Head(s) = "-"
         THEN (IF inRun THEN <<>> ELSE <<"-">>) \o SquashSeparators(Tail(s), TRUE)
         ELSE <<Head(s)>> \o SquashSeparators(Tail(s), FALSE)

\* value.strip('-_')
RECURSIVE StripLeft(_)
StripLeft(s) ==
    IF s # <<>> /\ Head(s) \in {"-", "_"} THEN StripLeft(Tail(s)) ELSE s

RECURSIVE StripRight(_)
StripRight(s) ==
    IF s # <<>> /\ s[Len(s)] \in {"-", "_"}
    THEN StripRight(SubSeq(s, 1, Len(s) - 1)) ELSE s

\* django.utils.text.slugify(value, allow_unicode=True)
slugify(value) == StripRight(StripLeft(SquashSeparators(KeepSlugChars(str(value)), FALSE)))

\* str.replace("-", "_")
replace_hyphens(s) == [i \in 1..Len(s) |-> IF s[i] = "-" THEN "_" ELSE s[i]]

Unset == [t |-> "unset"]

\* a row of `model` with no field set yet
BlankRow(model) == [f \in ModelFields[model] |-> Unset]

Restrict(f, keys) == [k \in keys |-> f[k]]

\* the lookup of a record: the first of "name", "code" the filtered data holds non-null
PREFERRED_LOOKUPS == <<"name", "code">>

LookupFields(filtered_data) ==
    {PREFERRED_LOOKUPS[i] : i \in {j \in 1..Len(PREFERRED_LOOKUPS) :
        /\ PREFERRED_LOOKUPS[j] \in DOMAIN filtered_data
        /\ filtered_data[PREFERRED_LOOKUPS[j]] # YNone
        /\ \A k \in 1..(j - 1) :
              ~(/\ PREFERRED_LOOKUPS[k] \in DOMAIN filtered_data
                /\ filtered_data[PREFERRED_LOOKUPS[k]] # YNone)}}

\* LoadRecord that raises for a record without a lookup instead of going on
LoadRecord_RaisesOnNoLookup(d, model, record) ==
    IF record.t # "dict" THEN Loaded(d, "AttributeError")
    ELSE LET model_fields == ModelFields[model]
             kept == Restrict(record.v, DOMAIN record.v \cap model_fields)
             filtered_data ==
                 IF "slug" \in model_fields /\ "name" \in DOMAIN record.v
                 THEN [slug |-> YStr(replace_hyphens(slugify(record.v.name)))] @@ kept
                 ELSE kept
             lookup == LookupFields(filtered_data)
         IN  IF lookup = {} THEN Loaded(d, "ValueError")
             ELSE LET lookup_data == Restrict(filtered_data, lookup)
                      defaults_data == Restrict(filtered_data, DOMAIN filtered_data \ lookup)
                      r == UpdateOrCreate(d.tables[model], lookup_data, defaults_data,
                                          NoUnique)
                  IN  Loaded([d EXCEPT !.tables[model] = {row @@ BlankRow(model) : row \in r.rows}],
                             r.exc)

\* the body of the inner loop of Options._load_options for one record
LoadRecord(d, model, record) ==
    IF record.t # "dict" THEN Loaded(d, "AttributeError")
    ELSE LET model_fields == ModelFields[model]
             kept == Restrict(record.v, DOMAIN record.v \cap model_fields)
             filtered_data ==
                 IF "slug" \in model_fields /\ "name" \in DOMAIN record.v
                 THEN [slug |-> YStr(replace_hyphens(slugify(record.v.name)))] @@ kept
                 ELSE kept
             lookup == LookupFields(filtered_data)
         IN  IF lookup = {} THEN Loaded(d, NoExc)
             ELSE LET lookup_data == Restrict(filtered_data, lookup)
                      defaults_data == Restrict(filtered_data, DOMAIN filtered_data \ lookup)
                      r == UpdateOrCreate(d.tables[model], lookup_data, defaults_data,
                                          NoUnique)
                  IN  Loaded([d EXCEPT !.tables[model] = {row @@ BlankRow(model) : row \in r.rows}],
                             r.exc)

RECURSIVE LoadRecords(_, _, _)
LoadRecords(d, model, records) ==
    IF records = <<>> THEN Loaded(d, NoExc)
    ELSE LET r == LoadRecord(d, model, Head(records)) IN
         IF r.exc # NoExc THEN r ELSE LoadRecords(r.db, model, Tail(records))

\* Options._load_options: the loop over the (model_name, records) items
RECURSIVE load_options(_, _)
load_options(d, items) ==
    IF items = <<>> THEN Loaded(d, NoExc)
    ELSE LET model_name == Head(items).name
             records == Head(items).records
         IN  IF model_name \notin ModelNames THEN Loaded(d, "LookupError")
             ELSE IF records.t \notin {"list", "dict", "str"} THEN Loaded(d, "TypeError")
             ELSE IF records.t # "list" THEN Loaded(d, "AttributeError")
             ELSE LET r == LoadRecords(d, model_name, records.v) IN
                  IF r.exc # NoExc THEN r ELSE load_options(r.db, Tail(items))

\* Options._validate_options
validate_options(options) == options.t = "dict"

\* Options.load
Options_load(d, file, ie) ==
    LET read == read_json_file(file, ie) IN
    IF read.exc # NoExc THEN Loaded(d, read.exc)
    ELSE IF Truthy(read.data) /\ validate_options(read.data)
         THEN load_options(d, read.data.v)
         ELSE Loaded(d, NoExc)

-----------------------------------------------------------------------------
(* Settings: config/settings.json *)

Field(mapping, key, default) == IF key \in DOMAIN mapping THEN mapping[key] ELSE default

\* the body of the loop of Settings._load_settings for one setting
LoadSetting(d, app_name, setting) ==
    IF setting.t # "dict" THEN Loaded(d, "TypeError")
    ELSE IF "name" \notin DOMAIN setting.v THEN Loaded(d, "KeyError")
    ELSE LET r == UpdateOrCreate(d.AppSetting,
                      [app |-> app_name, name |-> setting.v.name],
                      [label |-> Field(setting.v, "label", PyNone),
                       value |-> Field(setting.v, "value", PyNone),
                       default |-> Field(setting.v, "default", PyNone),
                       type |-> Field(setting.v, "type", "string"),
                       options |-> Field(setting.v, "options", "{}")],
                      UniqueAppSetting)
         IN  Loaded([d EXCEPT !.AppSetting = r.rows], r.exc)

\* Settings._load_settings
RECURSIVE load_settings(_, _, _)
load_settings(d, app_name, settings) ==
    IF settings = <<>> THEN Loaded(d, NoExc)
    ELSE LET r == LoadSetting(d, app_name, Head(settings)) IN
         IF r.exc # NoExc THEN r ELSE load_settings(r.db, app_name, Tail(settings))

\* Settings._validate_settings
validate_settings(settings) == settings.t = "list"

\* Settings.load
Settings_load(d, cfg, file, ie) ==
    LET read == read_json_file(file, ie) IN
    IF read.exc # NoExc THEN Loaded(d, read.exc)
    ELSE IF Truthy(read.data) /\ validate_settings(read.data)
         THEN load_settings(d, cfg.name, read.data.v)
         ELSE Loaded(d, NoExc)

-----------------------------------------------------------------------------
(* Permissions: config/permissions.json *)

\* Permissions._create_content_type
create_content_type(d, cfg) ==
    GetOrCreate(d.ContentType, [app_label |-> cfg.label, model |-> cfg.verbose_name],
                UniqueContentType)

\* Permissions._validate_permissions
validate_permissions(permissions) ==
    /\ permissions.t = "list"
    /\ \A i \in 1..Len(permissions.v) :
          /\ permissions.v[i].t = "dict"
          /\ "codename" \in DOMAIN permissions.v[i].v
          /\ "name" \in DOMAIN permissions.v[i].v

\* the body of the loop of Permissions._load_permissions for one permission
LoadPermission(d, app, content_type, perm) ==
    LET r == GetOrCreate(d.Permission,
                 [codename |-> perm.v.codename, name |-> perm.v.name,
                  content_type |-> content_type.id],
                 UniquePermission)
    IN  IF r.exc # NoExc THEN Loaded(d, r.exc)
        ELSE Loaded([d EXCEPT !.Permission = r.rows,
                              !.app_permissions = @ \cup {<<app.id, r.obj.id>>}], NoExc)

RECURSIVE PermissionsLoop(_, _, _, _)
PermissionsLoop(d, app, content_type, permissions) ==
    IF permissions = <<>> THEN Loaded(d, NoExc)
    ELSE LET r == LoadPermission(d, app, content_type, Head(permissions)) IN
         IF r.exc # NoExc THEN r
         ELSE PermissionsLoop(r.db, app, content_type, Tail(permissions))

\* Permissions._load_permissions
load_permissions(d, cfg, permissions) ==
    LET ct == create_content_type(d, cfg)
        d1 == [d EXCEPT !.ContentType = ct.rows]
        app == Get(d1.App, [name |-> cfg.name])
    IN  IF ct.exc # NoExc THEN Loaded(d, ct.exc)
        ELSE IF app.exc # NoExc THEN Loaded(d1, app.exc)
        ELSE PermissionsLoop(d1, app.obj, ct.obj, permissions)

\* Permissions.load
Permissions_load(d, cfg, file, ie) ==
    LET read == read_json_file(file, ie) IN
    IF read.exc # NoExc THEN Loaded(d, read.exc)
    ELSE IF Truthy(read.data) /\ validate_permissions(read.data)
         THEN load_permissions(d, cfg, read.data.v)
         ELSE Loaded(d, NoExc)

-----------------------------------------------------------------------------
(* Fixtures: fixtures/*.json *)

\* django's loaddata: every object of the file is saved under its primary key into
\* the table of its own model, in one transaction
RECURSIVE SaveObjects(_, _)
SaveObjects(tables, objects) ==
    IF objects = <<>> THEN [tables |-> tables, exc |-> NoExc]
    ELSE LET o == Head(objects) IN
         IF o.model \notin ModelNames
         THEN [tables |-> tables, exc |-> "DeserializationError"]
         ELSE LET row == [id |-> o.pk] @@ o.fields @@ BlankRow(o.model)
                  others == {r \in tables[o.model] : r.id # o.pk}
              IN  SaveObjects([tables EXCEPT ![o.model] = others \cup {row}], Tail(objects))

loaddata(d, fixture_file) ==
    LET saved == SaveObjects(d.tables, fixture_file.data.v) IN
    IF saved.exc # NoExc THEN [db |-> d, exc |-> saved.exc, applied |-> FALSE]
    ELSE [db |-> [d EXCEPT !.tables = saved.tables], exc |-> NoExc, applied |-> TRUE]

\* Fixtures._load_fixture: the file is loaded when the table of the model of its
\* first object is empty; an exception is swallowed when ignore_errors
load_fixture(d, fixture_file, ie) ==
    LET r == IF fixture_file.st = "garbled"
             THEN [db |-> d, exc |-> "JSONDecodeError", applied |-> FALSE]
             ELSE IF fixture_file.data.t # "list"
             THEN [db |-> d, exc |-> "KeyError", applied |-> FALSE]
             ELSE IF fixture_file.data.v = <<>>
             THEN [db |-> d, exc |-> "IndexError", applied |-> FALSE]
             ELSE IF fixture_file.data.v[1].model \notin ModelNames
             THEN [db |-> d, exc |-> "LookupError", applied |-> FALSE]
             ELSE IF d.tables[fixture_file.data.v[1].model] = {}
             THEN loaddata(d, fixture_file)
             ELSE [db |-> d, exc |-> NoExc, applied |-> FALSE]
    IN  IF ie THEN [r EXCEPT !.exc = NoExc] ELSE r

\* the loop of Fixtures.load over the files of the directory, in the directory's order
RECURSIVE FixturesLoop(_, _, _, _)
FixturesLoop(d, fixture_files, ie, applied) ==
    IF fixture_files = <<>> THEN [db |-> d, exc |-> NoExc, applied |-> applied]
    ELSE LET r == load_fixture(d, Head(fixture_files), ie) IN
         IF r.exc # NoExc THEN [db |-> r.db, exc |-> r.exc, applied |-> applied]
         ELSE FixturesLoop(r.db, Tail(fixture_files), ie,
                           IF r.applied
                           THEN Append(applied, [file |-> Head(fixture_files),
                                                 tables |-> d.tables])
                           ELSE applied)

\* the orders in which fixture_dir.glob("*.json") may list the files of the directory
Listings(dir) ==
    IF dir.st = "missing" THEN {dir}
    ELSE {[dir EXCEPT !.data = [i \in 1..Len(dir.data) |-> dir.data[p[i]]]] :
            p \in Permutations(1..Len(dir.data))}

\* Fixtures.load
Fixtures_load(d, dir, ie) ==
    IF dir.st = "missing" THEN [db |-> d, exc |-> NoExc, applied |-> <<>>]
    ELSE FixturesLoop(d, dir.data, ie, <<>>)

-----------------------------------------------------------------------------
(* AppInstaller: the registrar and the step wrappers *)

default_icon == "img/app.png"

\* django's static(path): the path under the static root
static(path) == [static |-> path]

\* AppInstaller._get_icon_url
get_icon_url(cfg, icon) ==
    static(IF icon # PyNone THEN <<cfg.label, icon>> ELSE <<default_icon>>)

\* AppInstaller._get_valid_url, for urls that get_valid_url accepts as they are
get_valid_url(url) == url

\* the attributes AppInstaller.__init__ derives from the AppConfig
InstallerAttrs(cfg) ==
    [name |-> cfg.name,
     verbose_name |-> cfg.verbose_name,
     label |-> cfg.label,
     is_default |-> Field(cfg, "is_default", TRUE),
     is_service |-> Field(cfg, "is_service", FALSE),
     url |-> get_valid_url(Field(cfg, "url", PyNone)),
     icon |-> get_icon_url(cfg, Field(cfg, "icon", PyNone))]

\* the defaults of the App columns that create_app does not give (models.py)
AppColumnDefaults == [is_active |-> TRUE, description |-> PyNone]

\* AppInstaller.create_app, inside its try: get_or_create by all seven attributes
create_app(d, cfg) ==
    LET r == GetOrCreate(d.App, InstallerAttrs(cfg), UniqueApp) IN
    Loaded([d EXCEPT !.App = {row @@ AppColumnDefaults : row \in r.rows}], r.exc)

\* a wrapper whose except clause logs and re-raises
StepCatches_Reraises(exc) == exc

\* what leaves the try/except Exception of create_app and of each load_* wrapper
StepCatches(exc) == NoExc

\* what leaves the try/except Exception of install
InstallCatches(exc) == NoExc

StepOrder ==
    <<"create_app", "load_options", "load_permissions", "load_fixtures",
      "load_settings", "load_tasks">>

\* the statement of install() after `step`, none ("idle") after the last
StepAfter(step) ==
    LET i == CHOOSE k \in 1..Len(StepOrder) : StepOrder[k] = step IN
    IF i = Len(StepOrder) THEN "idle" ELSE StepOrder[i + 1]

\* the tables the idempotence of install is stated for
Managed(d) ==
    [App |-> d.App, app_permissions |-> d.app_permissions, Permission |-> d.Permission,
     AppSetting |-> d.AppSetting, PeriodicTask |-> d.PeriodicTask]

-----------------------------------------------------------------------------
(* Inputs: the contents a tasks.yml can have *)

MaxFields == 6
MaxTaskCalls == 2

TaskNames == {"t1", "t2"}

RECURSIVE Join(_)
Join(fields) ==
    IF fields = <<>> THEN <<>>
    ELSE IF Len(fields) = 1 THEN fields[1]
    ELSE fields[1] \o <<" ">> \o Join(Tail(fields))

Stars(k) == [i \in 1..k |-> <<"*">>]

OddFields == {<<"3">>, <<"1", "5">>, <<"0">>, <<"x">>}

\* five fields: all "*", or "*" but for one field
FiveFieldStrings ==
    {Join(Stars(5))} \cup {Join([Stars(5) EXCEPT ![p] = f]) : p \in 1..5, f \in OddFields}

StarStrings == {Join(Stars(k)) : k \in 0..MaxFields}

ScheduleInputs ==
    {YStr(s) : s \in FiveFieldStrings \cup StarStrings}
    \cup {YInt(30), YInt(-5), YNone, YStr(<<" ", "3", "0", " ">>), YStr(<<"x">>),
          YStr(<<"3", " ", "0">>)}

Dict(v) == [t |-> "dict", v |-> v]

CronDetails == Dict([task |-> "jobs.a", schedule |-> YStr(Join(Stars(5)))])
IntervalDetails == Dict([task |-> "jobs.b", schedule |-> YInt(30)])

DetailInputs ==
    {Dict([task |-> "jobs.a", schedule |-> v]) : v \in ScheduleInputs}
    \cup {Dict([schedule |-> v]) : v \in {YStr(Join(Stars(5))), YInt(30)}}
    \cup {Dict([task |-> "jobs.a"]), Dict([description |-> "d"]), [t |-> "str"]}

PairDetails ==
    {CronDetails, IntervalDetails, Dict([task |-> "jobs.a", schedule |-> YInt(-5)]),
     Dict([schedule |-> YInt(30)])}

Item(name, details) == [name |-> name, details |-> details]

Missing == [st |-> "missing"]
Garbled == [st |-> "garbled"]
Parsed(data) == [st |-> "ok", data |-> data]

TaskFiles ==
    {Missing, Garbled, Parsed([t |-> "null"]), Parsed([t |-> "list"])}
    \cup {Parsed(Dict(<<Item("t1", d)>>)) : d \in DetailInputs}
    \cup {Parsed(Dict(<<Item(n1, d1), Item(n2, d2)>>)) :
            <<n1, n2, d1, d2>> \in {q \in TaskNames \X TaskNames \X PairDetails \X PairDetails :
                                      q[1] # q[2]}}

-----------------------------------------------------------------------------
(* Inputs: the contents of options.json *)

MaxRecords == 2
MaxOptionCalls == 1

List(v) == [t |-> "list", v |-> v]

NameMa == <<"M", "a">>
NameAb == <<"A", " ", "b">>
CodeX == <<"X">>

\* records with a name, with a name and a code, with a code only, without a usable
\* key (a null name; no name and no code), and one that is not a mapping
KeylessRecords == {Dict([name |-> YNone]), Dict([label |-> YStr(<<"L">>)])}

RecordInputs ==
    {Dict([name |-> YStr(NameMa)]),
     Dict([name |-> YStr(NameAb), code |-> YStr(CodeX)]),
     Dict([code |-> YStr(CodeX), label |-> YStr(<<"L">>)]),
     Dict([name |-> YNone, code |-> YStr(CodeX)]),
     [t |-> "str"]}
    \cup KeylessRecords

RECURSIVE SeqsUpTo(_, _)
SeqsUpTo(S, n) ==
    IF n = 0 THEN {<<>>}
    ELSE LET shorter == SeqsUpTo(S, n - 1) IN
         shorter \cup {Append(q, x) : q \in {r \in shorter : Len(r) = n - 1}, x \in S}

OptionItem(model, records) == [name |-> model, records |-> records]

GoodOptions == Parsed(Dict(<<OptionItem("Category", List(<<Dict([name |-> YStr(NameMa)])>>))>>))

\* a well-formed model entry followed by one whose records are not a list of mappings
MalformedOptions ==
    {Parsed(Dict(<<OptionItem("Category", List(<<Dict([name |-> YStr(NameMa)])>>)),
                   OptionItem("Grade", bad)>>)) :
        bad \in {[t |-> "int", i |-> 5], [t |-> "str"], List(<<[t |-> "str"]>>)}}

OptionFiles ==
    {Missing, Garbled, Parsed([t |-> "null"]), Parsed(List(<<[t |-> "str"]>>)),
     Parsed(Dict(<<OptionItem("Unknown", List(<<Dict([name |-> YStr(NameMa)])>>))>>))}
    \cup MalformedOptions
    \cup {Parsed(Dict(<<OptionItem("Category", List(rs))>>)) :
            rs \in SeqsUpTo(RecordInputs, MaxRecords) \ {<<>>}}
    \cup {Parsed(Dict(<<OptionItem("Grade", List(<<r>>))>>)) : r \in RecordInputs}

-----------------------------------------------------------------------------
(* Inputs: settings.json, permissions.json, the fixtures directory, the AppConfig *)

GoodSettings == Parsed(List(<<Dict([name |-> "theme", value |-> "dark"])>>))

SettingFiles ==
    {Missing, Garbled, GoodSettings,
     Parsed(List(<<Dict([name |-> "theme", value |-> "light", type |-> "choice"])>>)),
     Parsed(List(<<Dict([name |-> "theme", value |-> "dark"]), Dict([label |-> "Size"])>>)),
     Parsed(Dict(<<>>))}

GoodPermissions == Parsed(List(<<Dict([codename |-> "view_book", name |-> "Can view"])>>))

PermissionFiles ==
    {Missing, Garbled, GoodPermissions,
     Parsed(List(<<Dict([codename |-> "view_book", name |-> "Can view"]),
                   Dict([codename |-> "edit_book", name |-> "Can edit"])>>)),
     Parsed(List(<<Dict([codename |-> "view_book", name |-> "View books"])>>)),
     Parsed(List(<<Dict([codename |-> "view_book"])>>))}

Object(model, pk, fields) == [model |-> model, pk |-> pk, fields |-> fields]

CategoryFixture == Parsed(List(<<Object("Category", 1, [name |-> YStr(NameMa)])>>))
GradeFixture == Parsed(List(<<Object("Grade", 1, [code |-> YStr(CodeX)])>>))
\* a dump of both models of the sub-application
MixedFixture ==
    Parsed(List(<<Object("Category", 1, [name |-> YStr(NameMa)]),
                  Object("Grade", 1, [code |-> YStr(CodeX)])>>))

Dir(fixture_files) == [st |-> "ok", data |-> fixture_files]

FixtureDirs ==
    {Missing, Dir(<<>>), Dir(<<CategoryFixture>>), Dir(<<MixedFixture>>),
     Dir(<<CategoryFixture, GradeFixture>>),
     Dir(<<Garbled, GradeFixture>>), Dir(<<Parsed(List(<<>>)), MixedFixture>>)}

DefaultAppConfig ==
    [name |-> "library", label |-> "library", verbose_name |-> "Library"]

AppConfigs ==
    {DefaultAppConfig,
     [name |-> "library", label |-> "library", verbose_name |-> "Library System"],
     [name |-> "library", label |-> "library", verbose_name |-> "Library",
      is_service |-> TRUE, icon |-> "lib.png", url |-> "/library/"]}

\* the tasks.yml contents the whole-installer runs use
CronTasks == Parsed(Dict(<<Item("t1", CronDetails)>>))

InstallTaskFiles ==
    {Missing, Garbled, CronTasks,
     Parsed(Dict(<<Item("t1", IntervalDetails),
                   Item("t2", Dict([task |-> "jobs.a", schedule |-> YInt(-5)]))>>))}

InstallOptionFiles == {Missing, GoodOptions} \cup MalformedOptions

InstallFixtureDirs == {Missing, Dir(<<MixedFixture>>), Dir(<<CategoryFixture, GradeFixture>>)}

-----------------------------------------------------------------------------
(* tasks.cleanup_exports_folder: the storage, and one run of the task per worker *)

HOURS == 24
MaxTicks == 2

Workers == {"w1", "w2"}
FileNames == {"a.csv", "b.csv"}

\* a name of the exports folder: whether a file of that name is there, and its
\* modification time (hours)
NoFile == [there |-> FALSE, mtime |-> 0]
File(m) == [there |-> TRUE, mtime |-> m]

NoExports == [exists |-> FALSE, files |-> [f \in FileNames |-> NoFile]]

StartClock == HOURS + 1

\* modification times of the files found at the start: older than 24 hours, exactly
\* 24 hours old, and new
Mtimes == {0, StartClock - HOURS, StartClock}

\* default_storage.listdir(folder_path)[1], in any order
Orderings(S) ==
    {o \in [1..Cardinality(S) -> S] : \A i, j \in 1..Cardinality(S) : i # j => o[i] # o[j]}

listdir(e) == Orderings({f \in FileNames : e.files[f].there})

\* the strings the task returns
NotFound == [msg |-> "Directory 'exports' not found in storage."]
Complete(n) == [msg |-> "Cleanup complete.", deleted |-> n]
NotReturned == [msg |-> "none"]

NotRun ==
    [pc |-> "idle", cutoff |-> 0, files |-> <<>>, i |-> 1, mtime |-> 0,
     deleted_count |-> 0, returned |-> NotReturned, raised |-> NoExc,
     failed |-> <<>>, deleted |-> {}]

\* the loop's next iteration, or the return after the last file
NextFile(r) ==
    IF r.i < Len(r.files)
    THEN [r EXCEPT !.i = @ + 1, !.pc = "mtime"]
    ELSE [r EXCEPT !.i = @ + 1, !.pc = "done", !.returned = Complete(r.deleted_count)]

\* what default_storage.delete does for a name that is not there: the storage
\* backend either ignores it or raises
DeleteMissing == {"ignored", "FileNotFoundError"}

-----------------------------------------------------------------------------
(* State *)

MaxInstalls == 2

NoFiles == [options |-> Missing, settings |-> Missing, permissions |-> Missing,
            tasks |-> Missing, fixtures |-> Missing]

NoLast == [op |-> "none", before |-> EmptyDb]
NoSnap == [valid |-> FALSE]

InitWith(f) ==
    /\ db = EmptyDb
    /\ files = f
    /\ app_config = DefaultAppConfig
    /\ ignore_errors = TRUE
    /\ pc = "idle"
    /\ attempted = <<>>
    /\ logged = <<>>
    /\ raised = NoExc
    /\ last = NoLast
    /\ accepted = [n \in TaskNames |-> "none"]
    /\ snap = NoSnap
    /\ calls = 0
    /\ exports = NoExports
    /\ clock = StartClock
    /\ runs = [w \in Workers |-> NotRun]

\* a sub-application with any of its config files in place
Init ==
    \E o \in {Missing, GoodOptions}, s \in {Missing, GoodSettings},
       p \in {Missing, GoodPermissions}, t \in {Missing, CronTasks},
       f \in {Missing, Dir(<<MixedFixture>>)} :
        InitWith([options |-> o, settings |-> s, permissions |-> p, tasks |-> t,
                  fixtures |-> f])

InitBare == InitWith(NoFiles)

-----------------------------------------------------------------------------
(* Direct calls of the loaders: <Loader>(app_config, ignore_errors=ie).load() *)

Call(kind, bound, f, ie, r, lastRec) ==
    /\ pc = "idle"
    /\ calls < bound
    /\ db' = r.db
    /\ raised' = r.exc
    /\ files' = [files EXCEPT ![kind] = f]
    /\ ignore_errors' = ie
    /\ last' = lastRec
    /\ calls' = calls + 1
    /\ UNCHANGED <<app_config, pc, attempted, logged, snap>>
    /\ UNCHANGED cvars

CallTasksLoadOf(F, bound) ==
    \E f \in F, ie \in BOOLEAN :
        LET r == PeriodicTasks_load(db, f, ie, accepted) IN
        /\ Call("tasks", bound, f, ie, r, [op |-> "tasks", before |-> db])
        /\ accepted' = r.accepted

CallOptionsLoadOf(F, bound) ==
    \E f \in F, ie \in BOOLEAN :
        /\ Call("options", bound, f, ie, Options_load(db, f, ie),
                [op |-> "options", before |-> db])
        /\ UNCHANGED accepted

CallSettingsLoadOf(F, bound) ==
    \E f \in F, ie \in BOOLEAN :
        /\ Call("settings", bound, f, ie, Settings_load(db, app_config, f, ie),
                [op |-> "settings", before |-> db])
        /\ UNCHANGED accepted

CallPermissionsLoadOf(F, bound) ==
    \E f \in F, ie \in BOOLEAN :
        /\ Call("permissions", bound, f, ie, Permissions_load(db, app_config, f, ie),
                [op |-> "permissions", before |-> db])
        /\ UNCHANGED accepted

CallFixturesLoadOf(F, bound) ==
    \E f \in F, ie \in BOOLEAN : \E listing \in Listings(f) :
        LET r == Fixtures_load(db, listing, ie) IN
        /\ Call("fixtures", bound, f, ie, r,
                [op |-> "fixtures", before |-> db, applied |-> r.applied])
        /\ UNCHANGED accepted

CallTasksLoad == CallTasksLoadOf(TaskFiles, MaxTaskCalls)

NextTasks == CallTasksLoad

SpecTasks == InitBare /\ [][NextTasks]_vars

CallOptionsLoad == CallOptionsLoadOf(OptionFiles, MaxOptionCalls)

NextOptions == CallOptionsLoad

SpecOptions == InitBare /\ [][NextOptions]_vars

-----------------------------------------------------------------------------
(* Direct calls for the readers and the fixtures *)

MaxReaderCalls == 2
MaxFixtureCalls == 2

\* AppInstaller(app_config).create_app()
CallCreateApp ==
    /\ pc = "idle"
    /\ calls < MaxReaderCalls
    /\ LET r == create_app(db, app_config) IN
          /\ db' = r.db
          /\ logged' = IF r.exc = NoExc THEN logged ELSE Append(logged, <<"create_app", r.exc>>)
          /\ raised' = StepCatches(r.exc)
    /\ last' = [op |-> "create_app", before |-> db]
    /\ calls' = calls + 1
    /\ UNCHANGED <<files, app_config, ignore_errors, pc, attempted, accepted, snap>>
    /\ UNCHANGED cvars

ReadOptions == CallOptionsLoadOf({Missing, Garbled, GoodOptions}, MaxReaderCalls)
ReadSettings == CallSettingsLoadOf(SettingFiles, MaxReaderCalls)
ReadPermissions == CallPermissionsLoadOf(PermissionFiles, MaxReaderCalls)
ReadTasks == CallTasksLoadOf(InstallTaskFiles, MaxReaderCalls)

NextReaders == CallCreateApp \/ ReadOptions \/ ReadSettings \/ ReadPermissions \/ ReadTasks

SpecReaders == InitBare /\ [][NextReaders]_vars

CallFixturesLoad == CallFixturesLoadOf(FixtureDirs, MaxFixtureCalls)

\* another writer (the admin site, the REST API) adds a first row to a table
ExternalWrite ==
    \E m \in ModelNames :
        /\ pc = "idle"
        /\ db.tables[m] = {}
        /\ db' = [db EXCEPT !.tables[m] = {[id |-> 1] @@ BlankRow(m)}]
        /\ last' = [op |-> "external", before |-> db]
        /\ UNCHANGED <<files, app_config, ignore_errors, pc, attempted, logged, raised,
                       accepted, snap, calls>>
        /\ UNCHANGED cvars

NextFixtures == CallFixturesLoad \/ ExternalWrite

SpecFixtures == InitBare /\ [][NextFixtures]_vars

-----------------------------------------------------------------------------
(* install(): one action per step, each the step's wrapper around its loader *)

StartInstall ==
    \E ie \in BOOLEAN :
        /\ pc = "idle"
        /\ calls < MaxInstalls
        /\ pc' = StepOrder[1]
        /\ ignore_errors' = ie
        /\ attempted' = <<>>
        /\ logged' = <<>>
        /\ raised' = NoExc
        /\ snap' = IF ie = ignore_errors THEN snap ELSE NoSnap
        /\ calls' = calls + 1
        /\ UNCHANGED <<db, files, app_config, last, accepted>>
        /\ UNCHANGED cvars

\* a step of install(): the wrapper logs what its loader raised; an exception that
\* left the wrapper would end install() in its own except clause
Step(step, r, lastRec) ==
    /\ pc = step
    /\ db' = r.db
    /\ attempted' = Append(attempted, step)
    /\ logged' = IF r.exc = NoExc THEN logged ELSE Append(logged, <<step, r.exc>>)
    /\ last' = lastRec
    /\ LET leaving == StepCatches(r.exc)
           next == IF leaving = NoExc THEN StepAfter(step) ELSE "idle"
       IN  /\ pc' = next
           /\ raised' = IF next = "idle" THEN InstallCatches(leaving) ELSE raised
           /\ snap' = IF next = "idle"
                      THEN [valid |-> TRUE, db |-> Managed(r.db), repeated |-> snap.valid]
                      ELSE snap
    /\ UNCHANGED <<files, app_config, ignore_errors, calls>>
    /\ UNCHANGED cvars

AppInstaller_create_app ==
    /\ Step("create_app", create_app(db, app_config), [op |-> "create_app", before |-> db])
    /\ UNCHANGED accepted

AppInstaller_load_options ==
    /\ Step("load_options", Options_load(db, files.options, ignore_errors),
            [op |-> "load_options", before |-> db])
    /\ UNCHANGED accepted

AppInstaller_load_permissions ==
    /\ Step("load_permissions",
            Permissions_load(db, app_config, files.permissions, ignore_errors),
            [op |-> "load_permissions", before |-> db])
    /\ UNCHANGED accepted

AppInstaller_load_fixtures ==
    \E listing \in Listings(files.fixtures) :
        /\ LET r == Fixtures_load(db, listing, ignore_errors) IN
           Step("load_fixtures", r,
                [op |-> "load_fixtures", before |-> db, applied |-> r.applied])
        /\ UNCHANGED accepted

\* the settings loader is built without ignore_errors, so with its default, True
AppInstaller_load_settings ==
    /\ Step("load_settings", Settings_load(db, app_config, files.settings, TRUE),
            [op |-> "load_settings", before |-> db])
    /\ UNCHANGED accepted

AppInstaller_load_tasks ==
    LET r == PeriodicTasks_load(db, files.tasks, ignore_errors, accepted) IN
    /\ Step("load_tasks", r, [op |-> "load_tasks", before |-> db])
    /\ accepted' = r.accepted

\* between two installs: one config file is edited, ...
EditFile(kind, F) ==
    \E f \in F \ {files[kind]} :
        /\ pc = "idle"
        /\ snap.valid
        /\ calls < MaxInstalls
        /\ files' = [files EXCEPT ![kind] = f]
        /\ snap' = NoSnap
        /\ UNCHANGED <<db, app_config, ignore_errors, pc, attempted, logged, raised, last,
                       accepted, calls>>
        /\ UNCHANGED cvars

EditOptions == EditFile("options", InstallOptionFiles)
EditSettings == EditFile("settings", SettingFiles)
EditPermissions == EditFile("permissions", PermissionFiles)
EditFixtures == EditFile("fixtures", InstallFixtureDirs)
EditTasks == EditFile("tasks", InstallTaskFiles)

\* ... or the sub-application's AppConfig is changed, ...
ChangeAppConfig ==
    \E c \in AppConfigs \ {app_config} :
        /\ pc = "idle"
        /\ snap.valid
        /\ calls < MaxInstalls
        /\ app_config' = c
        /\ snap' = NoSnap
        /\ UNCHANGED <<db, files, ignore_errors, pc, attempted, logged, raised, last,
                       accepted, calls>>
        /\ UNCHANGED cvars

\* ... or an administrator deactivates the app (App.deactiate and save)
Deactivate ==
    \E a \in db.App :
        /\ pc = "idle"
        /\ snap.valid
        /\ calls < MaxInstalls
        /\ a.is_active
        /\ db' = [db EXCEPT !.App = (@ \ {a}) \cup {[a EXCEPT !.is_active = FALSE]}]
        /\ snap' = NoSnap
        /\ UNCHANGED <<files, app_config, ignore_errors, pc, attempted, logged, raised, last,
                       accepted, calls>>
        /\ UNCHANGED cvars

Next ==
    \/ StartInstall
    \/ AppInstaller_create_app
    \/ AppInstaller_load_options
    \/ AppInstaller_load_permissions
    \/ AppInstaller_load_fixtures
    \/ AppInstaller_load_settings
    \/ AppInstaller_load_tasks
    \/ EditOptions
    \/ EditSettings
    \/ EditPermissions
    \/ EditFixtures
    \/ EditTasks
    \/ ChangeAppConfig
    \/ Deactivate

Spec == Init /\ [][Next]_vars

-----------------------------------------------------------------------------
(* cleanup_exports_folder run by the workers of the task queue, with other
   processes writing and removing exports *)

\* lines 9-23: the folder check, the cutoff and the listing
cleanup_start(w) ==
    /\ runs[w].pc = "idle"
    /\ IF ~exports.exists
       THEN runs' = [runs EXCEPT ![w] = [@ EXCEPT !.pc = "done", !.returned = NotFound]]
       ELSE \E listing \in listdir(exports) :
                runs' = [runs EXCEPT ![w] =
                    IF listing = <<>>
                    THEN [@ EXCEPT !.pc = "done", !.cutoff = clock - HOURS,
                                   !.returned = Complete(0)]
                    ELSE [@ EXCEPT !.pc = "mtime", !.cutoff = clock - HOURS,
                                   !.files = listing, !.i = 1]]
    /\ UNCHANGED <<exports, clock>>
    /\ UNCHANGED ivars

\* lines 26-31: get_modified_time, outside the try, and the comparison with the cutoff
get_modified_time(w) ==
    LET r == runs[w]
        f == exports.files[r.files[r.i]]
    IN  /\ r.pc = "mtime"
        /\ runs' = [runs EXCEPT ![w] =
              IF ~f.there
              THEN [r EXCEPT !.pc = "done", !.raised = "FileNotFoundError"]
              ELSE IF f.mtime < r.cutoff
              THEN [r EXCEPT !.pc = "delete", !.mtime = f.mtime]
              ELSE NextFile([r EXCEPT !.mtime = f.mtime])]
        /\ UNCHANGED <<exports, clock>>
        /\ UNCHANGED ivars

\* lines 32-37: delete inside the try
delete(w) ==
    LET r == runs[w]
        name == r.files[r.i]
        f == exports.files[name]
    IN  /\ r.pc = "delete"
        /\ IF f.there
           THEN /\ exports' = [exports EXCEPT !.files[name] = NoFile]
                /\ runs' = [runs EXCEPT ![w] =
                      NextFile([r EXCEPT !.deleted_count = @ + 1,
                                         !.deleted = @ \cup {[name |-> name, mtime |-> f.mtime]}])]
           ELSE /\ \E outcome \in DeleteMissing :
                      runs' = [runs EXCEPT ![w] =
                          IF outcome = "ignored"
                          THEN NextFile([r EXCEPT !.deleted_count = @ + 1])
                          ELSE NextFile([r EXCEPT !.failed = Append(@, <<name, outcome>>)])]
                /\ UNCHANGED exports
        /\ UNCHANGED clock
        /\ UNCHANGED ivars

\* another process removes a file of the folder
RemoveFile ==
    \E name \in FileNames :
        /\ exports.files[name].there
        /\ exports' = [exports EXCEPT !.files[name] = NoFile]
        /\ UNCHANGED <<clock, runs>>
        /\ UNCHANGED ivars

\* an export is written, new or over a file of the same name
WriteExport ==
    \E name \in FileNames :
        /\ exports.exists
        /\ exports.files[name] # File(clock)
        /\ exports' = [exports EXCEPT !.files[name] = File(clock)]
        /\ UNCHANGED <<clock, runs>>
        /\ UNCHANGED ivars

Tick ==
    /\ clock < StartClock + MaxTicks
    /\ clock' = clock + 1
    /\ UNCHANGED <<exports, runs>>
    /\ UNCHANGED ivars

InitExports ==
    /\ db = EmptyDb
    /\ files = NoFiles
    /\ app_config = DefaultAppConfig
    /\ ignore_errors = TRUE
    /\ pc = "idle"
    /\ attempted = <<>>
    /\ logged = <<>>
    /\ raised = NoExc
    /\ last = NoLast
    /\ accepted = [n \in TaskNames |-> "none"]
    /\ snap = NoSnap
    /\ calls = 0
    /\ clock = StartClock
    /\ runs = [w \in Workers |-> NotRun]
    /\ \/ exports = NoExports
       \/ \E fs \in [FileNames -> {NoFile} \cup {File(m) : m \in Mtimes}] :
              exports = [exists |-> TRUE, files |-> fs]

NextCleanup ==
    \/ \E w \in Workers : cleanup_start(w)
    \/ \E w \in Workers : get_modified_time(w)
    \/ \E w \in Workers : delete(w)
    \/ RemoveFile
    \/ WriteExport
    \/ Tick

SpecCleanup == InitExports /\ [][NextCleanup]_vars

-----------------------------------------------------------------------------
(* Claims about PeriodicTasks.load, under SpecTasks *)

\* the last call loaded a tasks.yml holding one item, a mapping with a 'task' key
OneTaskLoaded ==
    /\ last.op = "tasks"
    /\ files.tasks.st = "ok"
    /\ files.tasks.data.t = "dict"
    /\ Len(files.tasks.data.v) = 1
    /\ files.tasks.data.v[1].details.t = "dict"
    /\ "task" \in DOMAIN files.tasks.data.v[1].details.v

LoadedName == files.tasks.data.v[1].name

LoadedParts ==
    LET v == files.tasks.data.v[1].details.v IN
    split(str(IF "schedule" \in DOMAIN v THEN v.schedule ELSE YStr(<<>>)))

\* five fields that are each a field of a cron line in its order,
\* minute hour day-of-month month day-of-week
StandardCron(parts) ==
    /\ Len(parts) = 5
    /\ ExpandCronspec(parts[1], 0, 59).ok
    /\ ExpandCronspec(parts[2], 0, 23).ok
    /\ ExpandCronspec(parts[3], 1, 31).ok
    /\ ExpandCronspec(parts[4], 1, 12).ok
    /\ ExpandCronspec(parts[5], 0, 6).ok

HasCron(d, name) ==
    \E r \in d.PeriodicTask :
        /\ r.name = name
        /\ r.interval = NoRef
        /\ \E c \in d.CrontabSchedule : c.id = r.crontab

HasInterval(d, name, every) ==
    \E r \in d.PeriodicTask :
        /\ r.name = name
        /\ r.crontab = NoRef
        /\ \E i \in d.IntervalSchedule :
              i.id = r.interval /\ i.every = every /\ i.period = SECONDS

\* C2: after a load of one task entry, a schedule of five cron fields has given the
\* task a cron schedule, a schedule of one field of digits has given it an interval
\* of that many seconds, and a schedule of another number of fields, or of one field
\* that is not a number, has left the PeriodicTask table as it was.
C2_ScheduleClassification ==
    OneTaskLoaded =>
        /\ StandardCron(LoadedParts) => HasCron(db, LoadedName)
        /\ (Len(LoadedParts) = 1 /\ isdigit(LoadedParts[1]))
              => HasInterval(db, LoadedName, int(LoadedParts[1]))
        /\ (Len(LoadedParts) # 5 /\ ~(Len(LoadedParts) = 1 /\ isdigit(LoadedParts[1])))
              => db.PeriodicTask = last.before.PeriodicTask

\* C3: every PeriodicTask row has exactly one of its crontab and interval references
\* set, to an existing schedule row, and it is the kind of the schedule string last
\* accepted for the task's name.
C3_ExactlyOneSchedule ==
    \A r \in db.PeriodicTask :
        /\ (r.crontab = NoRef) # (r.interval = NoRef)
        /\ r.crontab # NoRef =>
              /\ accepted[r.name] = "cron"
              /\ \E c \in db.CrontabSchedule : c.id = r.crontab
        /\ r.interval # NoRef =>
              /\ accepted[r.name] = "interval"
              /\ \E i \in db.IntervalSchedule : i.id = r.interval

\* C3 witness: a task that had a cron schedule was loaded with an interval, or one
\* that had an interval was loaded with a cron schedule
C3_Switched ==
    /\ last.op = "tasks"
    /\ \E old \in last.before.PeriodicTask : \E new \in db.PeriodicTask :
          /\ old.name = new.name
          /\ \/ old.crontab # NoRef /\ new.interval # NoRef /\ accepted[new.name] = "interval"
             \/ old.interval # NoRef /\ new.crontab # NoRef /\ accepted[new.name] = "cron"

-----------------------------------------------------------------------------
(* Claims about Options.load, under SpecOptions *)

\* the last call loaded an options.json that maps one known model to a list
OneModelLoaded ==
    /\ last.op = "options"
    /\ files.options.st = "ok"
    /\ files.options.data.t = "dict"
    /\ Len(files.options.data.v) = 1
    /\ files.options.data.v[1].name \in ModelNames
    /\ files.options.data.v[1].records.t = "list"

LoadedModel == files.options.data.v[1].name
LoadedRecords == files.options.data.v[1].records.v

\* the natural key of a record for a model: 'name' if the record has a non-null name
\* and the model a name field, else 'code' likewise, else none
KeyOf(record, model) ==
    IF record.t # "dict" THEN "none"
    ELSE IF /\ "name" \in DOMAIN record.v \cap ModelFields[model]
            /\ record.v.name # YNone THEN "name"
    ELSE IF /\ "code" \in DOMAIN record.v \cap ModelFields[model]
            /\ record.v.code # YNone THEN "code"
    ELSE "none"

IsMapping(record) == record.t = "dict"

Keyless(record, model) == IsMapping(record) /\ KeyOf(record, model) = "none"

RECURSIVE DropKeyless(_, _)
DropKeyless(records, model) ==
    IF records = <<>> THEN <<>>
    ELSE (IF Keyless(Head(records), model) THEN <<>> ELSE <<Head(records)>>)
         \o DropKeyless(Tail(records), model)

\* the loaded file without its records that have no natural key
WithoutKeyless ==
    Parsed(Dict(<<OptionItem(LoadedModel, List(DropKeyless(LoadedRecords, LoadedModel)))>>))

\* C8: a record without a usable natural key writes nothing and raises nothing: the
\* load ends as the load of the same file without these records would, in the same
\* tables and with the same outcome; and when the load raised nothing, every record
\* with a natural key has its row, found by that key (unless a later record of the
\* file gave that field another value), and there are no more new rows than records
\* with a key.
C8_KeylessRecordsSkipped ==
    OneModelLoaded =>
        LET without == Options_load(last.before, WithoutKeyless, ignore_errors)
            rows == db.tables[LoadedModel]
            keyed == {i \in 1..Len(LoadedRecords) : KeyOf(LoadedRecords[i], LoadedModel) # "none"}
        IN  /\ db = without.db
            /\ raised = without.exc
            /\ (\A i \in 1..Len(LoadedRecords) : Keyless(LoadedRecords[i], LoadedModel))
                  => db = last.before /\ raised = NoExc
            /\ raised = NoExc =>
                  /\ \A i \in keyed :
                        LET k == KeyOf(LoadedRecords[i], LoadedModel) IN
                        (\A j \in keyed : j > i /\ k \in DOMAIN LoadedRecords[j].v
                              => LoadedRecords[j].v[k] = LoadedRecords[i].v[k])
                           => \E row \in rows : row[k] = LoadedRecords[i].v[k]
                  /\ Cardinality(rows)
                        <= Cardinality(last.before.tables[LoadedModel]) + Cardinality(keyed)

\* C8 witness: a record without a key was followed by a record with one, whose row
\* was written
C8_SkippedThenUpserted ==
    /\ OneModelLoaded
    /\ Len(LoadedRecords) = 2
    /\ Keyless(LoadedRecords[1], LoadedModel)
    /\ KeyOf(LoadedRecords[2], LoadedModel) = "name"
    /\ raised = NoExc
    /\ \E row \in db.tables[LoadedModel] : row.name = LoadedRecords[2].v.name

\* the shape Options.load is said to accept: a mapping from model names to lists of
\* record mappings
WellShaped(data) ==
    /\ data.t = "dict"
    /\ \A i \in 1..Len(data.v) :
          /\ data.v[i].records.t = "list"
          /\ \A j \in 1..Len(data.v[i].records.v) : IsMapping(data.v[i].records.v[j])

\* C9: a load of an options.json of another shape than a mapping from model names to
\* lists of record mappings leaves every table as it was.
C9_ShapeValidatedBeforeWrite ==
    (last.op = "options" /\ files.options.st = "ok" /\ ~WellShaped(files.options.data))
        => db = last.before

-----------------------------------------------------------------------------
(* Claims about install(), under Spec *)

NaturalKeysUnique(d) ==
    /\ \A a, b \in d.App : a.name = b.name => a = b
    /\ \A a, b \in d.AppSetting : (a.app = b.app /\ a.name = b.name) => a = b
    /\ \A a, b \in d.Permission :
          (a.content_type = b.content_type /\ a.codename = b.codename) => a = b
    /\ \A a, b \in d.PeriodicTask : a.name = b.name => a = b

InstallEnds == pc # "idle" /\ pc' = "idle"

\* C1: no natural key (App.name; AppSetting app and name; Permission content type
\* and codename; PeriodicTask.name) is ever in two rows, and an install that follows
\* an install of the same config files, AppConfig and ignore_errors ends with the
\* App, AppSetting, Permission, App-permission and PeriodicTask tables as that
\* install left them.
C1_InstallIdempotent ==
    /\ []NaturalKeysUnique(db)
    /\ [][(InstallEnds /\ snap.valid) => Managed(db') = snap.db]_vars

\* C1 witness: a second install of unchanged inputs has ended, with rows in each of
\* the tables
C1_RepeatedInstall ==
    /\ pc = "idle"
    /\ snap.valid
    /\ snap.repeated
    /\ attempted = StepOrder
    /\ db.App # {} /\ db.AppSetting # {} /\ db.Permission # {}
    /\ db.app_permissions # {} /\ db.PeriodicTask # {}

\* C4: while install() runs, the steps entered so far are the steps before the
\* current one, in the fixed order; when it has returned, all six were entered in
\* that order, whatever the loaders raised, and nothing was raised to its caller.
C4_StepsIsolated ==
    /\ raised = NoExc
    /\ (pc = "idle" /\ calls > 0) => attempted = StepOrder
    /\ pc # "idle" =>
          \E k \in 1..Len(StepOrder) :
              pc = StepOrder[k] /\ attempted = SubSeq(StepOrder, 1, k - 1)

\* C4 witness: an install with ignore_errors false has returned after its first step
\* and two of its loader steps each logged an exception
C4_FailuresLogged ==
    /\ pc = "idle"
    /\ ~ignore_errors
    /\ attempted = StepOrder
    /\ \E i, j, k \in 1..Len(logged) :
          /\ logged[i][1] = "create_app"
          /\ logged[j] = <<"load_options", "FileNotFoundError">>
          /\ logged[k][1] \in {"load_permissions", "load_tasks"}

\* C5: after create_app there is exactly one App row of the sub-application's name,
\* and its verbose name, label, flags, url and icon are those of the installer that
\* made the call.
C5_SingleAppRowUpdated ==
    last.op = "create_app" =>
        /\ Cardinality(Filter(db.App, [name |-> app_config.name])) = 1
        /\ \A a \in Filter(db.App, [name |-> app_config.name]) :
              Restrict(a, DOMAIN InstallerAttrs(app_config)) = InstallerAttrs(app_config)

Kept(before, after) == \A r \in before : \E q \in after : q.id = r.id

\* C10: no step removes a row of App, AppSetting, Permission, ContentType, the
\* App-permission links, the schedules or PeriodicTask (a row keeps its primary key
\* and, for App, its name), and no step of install() changes is_active of an App row.
C10_NothingDeleted ==
    [][/\ Kept(db.App, db'.App)
       /\ \A a \in db.App : \A b \in db'.App : b.id = a.id => b.name = a.name
       /\ Kept(db.AppSetting, db'.AppSetting)
       /\ Kept(db.Permission, db'.Permission)
       /\ Kept(db.ContentType, db'.ContentType)
       /\ db.app_permissions \subseteq db'.app_permissions
       /\ Kept(db.CrontabSchedule, db'.CrontabSchedule)
       /\ Kept(db.IntervalSchedule, db'.IntervalSchedule)
       /\ Kept(db.PeriodicTask, db'.PeriodicTask)
       /\ pc # "idle" =>
             \A a \in db.App : \A b \in db'.App : b.id = a.id => b.is_active = a.is_active
      ]_vars

\* C10 witness: an install has ended after the tasks.yml of an installed
\* sub-application was removed, and its PeriodicTask rows are still there
C10_InstalledAfterRemoval ==
    /\ pc = "idle"
    /\ calls > 1
    /\ attempted = StepOrder
    /\ files.tasks.st = "missing"
    /\ db.PeriodicTask # {}

-----------------------------------------------------------------------------
(* Claim about Fixtures.load, under SpecFixtures *)

\* C6: every fixture file that a load applied was applied when each table it writes
\* to, the table of the model of each of its objects, held no row.
C6_FixturesOnlyIntoEmptyTables ==
    last.op = "fixtures" =>
        \A i \in 1..Len(last.applied) :
            \A j \in 1..Len(last.applied[i].file.data.v) :
                last.applied[i].tables[last.applied[i].file.data.v[j].model] = {}

-----------------------------------------------------------------------------
(* Claim about the config readers, under SpecReaders *)

\* C7: a loader whose file is missing or does not parse writes nothing; it raises
\* nothing when ignore_errors, and raises file-not-found (missing) or a decode error
\* (unparsable) otherwise.
C7_ReadersHonourIgnoreErrors ==
    (last.op \in {"options", "settings", "permissions", "tasks"}
        /\ files[last.op].st \in {"missing", "garbled"}) =>
        /\ db = last.before
        /\ ignore_errors => raised = NoExc
        /\ ~ignore_errors =>
              raised \in (IF files[last.op].st = "missing" THEN {"FileNotFoundError"}
                          ELSE {"ValueError", "YAMLError"})

-----------------------------------------------------------------------------
(* Claim about cleanup_exports_folder, under SpecCleanup *)

\* no run has raised to the task queue
CleanupNeverRaises == \A w \in Workers : runs[w].raised = NoExc

\* a run that has ended returned a status string, after it went through all the
\* files of its listing
CleanupReturnsStatus ==
    \A w \in Workers :
        runs[w].pc = "done" =>
            /\ runs[w].returned # NotReturned
            /\ runs[w].i = Len(runs[w].files) + 1

\* every file a run deleted had, when it was deleted, a modification time before
\* the cutoff of that run (its start less 24 hours)
CleanupDeletesOnlyExpired ==
    \A w \in Workers : \A d \in runs[w].deleted : d.mtime < runs[w].cutoff

\* C11: with other processes and other runs removing files after the listing was
\* taken, no run of cleanup_exports_folder raises; a run that ended returned its
\* status string after going through every listed file; and the files it deleted
\* were modified before its cutoff.
C11_CleanupToleratesRaces ==
    /\ CleanupNeverRaises
    /\ CleanupReturnsStatus
    /\ CleanupDeletesOnlyExpired

-----------------------------------------------------------------------------
(* Claim about the entries of a tasks.yml, under SpecTasks *)

\* the last call loaded a tasks.yml that parses to a mapping
TasksLoaded ==
    /\ last.op = "tasks"
    /\ files.tasks.st = "ok"
    /\ files.tasks.data.t = "dict"

PartsOf(details) ==
    split(str(IF "schedule" \in DOMAIN details.v THEN details.v.schedule ELSE YStr(<<>>)))

\* an entry with a 'task' key and a schedule that the loader accepts
WellFormed(details) ==
    /\ details.t = "dict"
    /\ "task" \in DOMAIN details.v
    /\ \/ validate_schedule_format(str(IF "schedule" \in DOMAIN details.v
                                       THEN details.v.schedule ELSE YStr(<<>>))).exc = NoExc
       \/ Len(PartsOf(details)) = 1 /\ isdigit(PartsOf(details)[1])

TaskRows(d, name) == Filter(d.PeriodicTask, [name |-> name])

\* the PeriodicTask row of the entry's name has the entry's task and schedule
Written(d, entry) ==
    /\ \E r \in TaskRows(d, entry.name) : r.task = entry.details.v.task
    /\ IF Len(PartsOf(entry.details)) = 5
       THEN HasCron(d, entry.name)
       ELSE HasInterval(d, entry.name, int(PartsOf(entry.details)[1]))

Malformed(entries) == {i \in 1..Len(entries) : ~WellFormed(entries[i].details)}

FirstMalformed(entries) ==
    CHOOSE k \in Malformed(entries) : \A i \in Malformed(entries) : k <= i

\* C12: after a load of a tasks.yml with ignore_errors, every well-formed entry has
\* its PeriodicTask row, whatever entries precede or follow it, the rows named by
\* malformed entries are as they were, and nothing was raised; without ignore_errors
\* the load of a file with a malformed entry raised, the entries before the first
\* malformed one have their rows, and the rows named by it and by the entries after
\* it are as they were.
C12_MalformedEntryNonFatal ==
    TasksLoaded =>
        LET entries == files.tasks.data.v
            bad == Malformed(entries)
        IN  /\ ignore_errors =>
                  /\ raised = NoExc
                  /\ \A i \in 1..Len(entries) :
                        IF i \in bad
                        THEN TaskRows(db, entries[i].name)
                                = TaskRows(last.before, entries[i].name)
                        ELSE Written(db, entries[i])
            /\ (~ignore_errors /\ bad # {}) =>
                  /\ raised # NoExc
                  /\ \A i \in 1..Len(entries) :
                        IF i >= FirstMalformed(entries)
                        THEN TaskRows(db, entries[i].name)
                                = TaskRows(last.before, entries[i].name)
                        ELSE Written(db, entries[i])

\* C12 witness: with ignore_errors, a malformed entry whose name already has a row
\* was followed by a well-formed entry, which was given its row
C12_LoadedPastMalformed ==
    /\ TasksLoaded
    /\ ignore_errors
    /\ Len(files.tasks.data.v) = 2
    /\ ~WellFormed(files.tasks.data.v[1].details)
    /\ TaskRows(last.before, files.tasks.data.v[1].name) # {}
    /\ WellFormed(files.tasks.data.v[2].details)
    /\ TaskRows(last.before, files.tasks.data.v[2].name) = {}
    /\ Written(db, files.tasks.data.v[2])

-----------------------------------------------------------------------------
(* Claim about Permissions.load: under Spec as the load_permissions step of
   install(), under SpecReaders as a direct call of the loader *)

PermissionsLoaded == last.op \in {"load_permissions", "permissions"}

\* permissions.json parses to a list of mappings that each have 'codename' and 'name'
ValidPermissions ==
    /\ files.permissions.st = "ok"
    /\ validate_permissions(files.permissions.data)

AppRows(d) == Filter(d.App, [name |-> app_config.name])

ContentTypes(d) ==
    Filter(d.ContentType, [app_label |-> app_config.label, model |-> app_config.verbose_name])

\* the pair is a Permission of the sub-application's content type, linked to its App row
Reconciled(d, perm) ==
    \E p \in d.Permission :
        /\ p.codename = perm.v.codename
        /\ p.name = perm.v.name
        /\ \E ct \in ContentTypes(d) : p.content_type = ct.id
        /\ \A a \in AppRows(d) : <<a.id, p.id>> \in d.app_permissions

\* a valid config loaded while the App row exists: every listed pair is reconciled
C13_ListedPairsReconciled ==
    (PermissionsLoaded /\ ValidPermissions /\ AppRows(last.before) # {}) =>
        \A i \in 1..Len(files.permissions.data.v) :
            Reconciled(db, files.permissions.data.v[i])

\* no App row: no Permission and no link is written, and as a step of install()
\* nothing leaves load_permissions and the next step is the one to run
C13_NothingWithoutAppRow ==
    (PermissionsLoaded /\ AppRows(last.before) = {}) =>
        /\ db.Permission = last.before.Permission
        /\ db.app_permissions = last.before.app_permissions
        /\ last.op = "load_permissions" =>
              raised = NoExc /\ pc = StepAfter("load_permissions")

\* a config of another shape: nothing is written
C13_NothingFromInvalidConfig ==
    (PermissionsLoaded /\ files.permissions.st = "ok" /\ ~ValidPermissions) =>
        db = last.before

\* C13: after Permissions.load of a valid config with the sub-application's App row
\* in place, every listed (codename, name) pair is a Permission of the
\* sub-application's content type linked to that App row; with no such App row no
\* Permission is created or linked, load_permissions lets nothing out and install()
\* goes on to its next step; a config that is not a list of mappings with 'codename'
\* and 'name' writes nothing.
C13_PermissionsFollowAppRow ==
    /\ C13_ListedPairsReconciled
    /\ C13_NothingWithoutAppRow
    /\ C13_NothingFromInvalidConfig

====
